---------------------------- MODULE Spec2Model ----------------------------
(***************************************************************************)
(* Foodgram backend: the recipe aggregate (Recipe, Recipe<->Tag,           *)
(* RecipeIngredient), the relation toggles (FavoriteRecipe, ShoppingCart,  *)
(* Subscribe) and the shopping-list aggregation, modelled from             *)
(* backend/api/serializers.py, backend/api/views.py and the models.        *)
(*                                                                         *)
(* Tables are sets of rows.  A request handler is one action; `response`   *)
(* records the request just served and what the caller got back.           *)
(***************************************************************************)
EXTENDS Integers, Sequences, FiniteSets, TLC

(***************************************************************************)
(* Bounds of the model.                                                    *)
(***************************************************************************)
\* Longest tag list / ingredient list a request payload carries.
MaxLen == 2
\* Number of Recipe primary keys the auto-increment sequence may hand out.
MaxRecipes == 1

(***************************************************************************)
(* Configured limits (recipes/constants.py).                               *)
(***************************************************************************)
MIN_COOKING_TIME == 1
MAX_COOKING_TIME == 32000
MIN_INGREDIENT_AMOUNT == 1
MAX_INGREDIENT_AMOUNT == 32000

(***************************************************************************)
(* Reference data and identities.                                          *)
(***************************************************************************)
Users == {1, 2}
TagIds == {1, 2}
\* The ingredient ids request payloads refer to.
IngredientIds == {1, 2}

\* The Ingredient table: (name, measurement_unit) is unique.
Ingredient ==
    {[id |-> 1, name |-> "Flour", measurement_unit |-> "g"],
     [id |-> 2, name |-> "Sugar", measurement_unit |-> "g"],
     [id |-> 3, name |-> "Flour", measurement_unit |-> "kg"]}

IngredientRow(i) == CHOOSE x \in Ingredient : x.id = i

\* The User table.
User ==
    {[id |-> 1, username |-> "ann", first_name |-> "Ann", last_name |-> "Lee"],
     [id |-> 2, username |-> "bob", first_name |-> "Bob", last_name |-> "Ray"]}

UserRow(u) == CHOOSE x \in User : x.id = u

RecipePks == 1..MaxRecipes

(***************************************************************************)
(* Request payloads of the recipe endpoints.  `fields` is the set of keys  *)
(* present in the request data; an absent key carries a placeholder value. *)
(* FieldNames are the writable fields of RecipeWriteSerializer; `author`   *)
(* is declared read_only.                                                  *)
(***************************************************************************)
FieldNames == {"tags", "ingredients", "cooking_time"}

read_only_fields == {"author"}

Range(s) == {s[i] : i \in DOMAIN s}

SeqsUpTo(S, n) == UNION {[1..k -> S] : k \in 0..n}

LinesOver(amounts) == [id : IngredientIds, amount : amounts]

PayloadsOver(amounts, times) ==
    {p \in [fields : SUBSET FieldNames,
            tags : SeqsUpTo(TagIds, MaxLen),
            ingredients : SeqsUpTo(LinesOver(amounts), MaxLen),
            cooking_time : times \cup {-1},
            author : {0}] :
        /\ ("tags" \notin p.fields => p.tags = <<>>)
        /\ ("ingredients" \notin p.fields => p.ingredients = <<>>)
        /\ ("cooking_time" \notin p.fields => p.cooking_time = -1)
        /\ ("cooking_time" \in p.fields => p.cooking_time \in times)}

\* The payloads of P, each without and with an "author" key naming a user.
WithAuthor(P) ==
    P \cup {[p EXCEPT !.fields = @ \cup {"author"}, !.author = a] :
               p \in P, a \in Users}

NoData ==
    [fields |-> {}, tags |-> <<>>, ingredients |-> <<>>, cooking_time |-> -1,
     author |-> 0]

VARIABLES
    Recipe,            \* rows [id, author, cooking_time]
    Recipe_tags,       \* rows <<recipe, tag>> of the Recipe.tags relation
    RecipeIngredient,  \* rows [recipe, ingredient, amount]
    FavoriteRecipe,    \* rows [user, recipe]
    ShoppingCart,      \* rows [user, recipe]
    Subscribe,         \* rows [user, author]
    next_pk,           \* next value of Recipe's primary-key sequence
    response,          \* the request last served and its outcome
    inflight           \* per worker: the request it is in the middle of

tables == <<Recipe, Recipe_tags, RecipeIngredient>>
relations == <<FavoriteRecipe, ShoppingCart, Subscribe>>
vars == <<Recipe, Recipe_tags, RecipeIngredient, FavoriteRecipe, ShoppingCart,
          Subscribe, next_pk, response, inflight>>

\* Request workers (threads / processes of the server).
Workers == {1, 2}


NoBody == [id |-> 0, author |-> 0, tags |-> {}, ingredients |-> {}, cooking_time |-> 0]

\* No attachment: the response is not a file.
NoDocument == [text |-> "", lines |-> <<>>, filename |-> ""]

\* The JSON object of a response as far as the relations show in it: the
\* keys it has (`keys`, and `author_keys` of a nested or top-level user
\* profile) and the values of the computed members.  No object: no keys.
NoRepr ==
    [keys |-> {}, author_keys |-> {}, is_favorited |-> FALSE,
     is_in_shopping_cart |-> FALSE, is_subscribed |-> FALSE,
     recipes |-> {}, recipes_count |-> 0]

NoResponse ==
    [op |-> "none", user |-> 0, pk |-> 0, partial |-> FALSE, data |-> NoData,
     status |-> 0, error |-> "none", before |-> NoBody, body |-> NoBody,
     items |-> {}, document |-> NoDocument, repr |-> NoRepr]

\* A worker between requests.
NoSave == [R |-> {}, RT |-> {}, RI |-> {}]

IdleWorker ==
    [pc |-> "idle", op |-> "none", user |-> 0, pk |-> 0, partial |-> FALSE,
     data |-> NoData, status |-> 0, error |-> "none", step |-> "none",
     savepoint |-> NoSave]

Reply(op, u, pk, partial, data, status, error, before, body) ==
    [op |-> op, user |-> u, pk |-> pk, partial |-> partial, data |-> data,
     status |-> status, error |-> error, before |-> before, body |-> body,
     items |-> {}, document |-> NoDocument, repr |-> NoRepr]

(***************************************************************************)
(* RecipeReadSerializer: the read representation of a recipe, computed     *)
(* from the given tables.                                                  *)
(***************************************************************************)
RecipeRow(R, pk) == CHOOSE x \in R : x.id = pk

RecipeReadSerializer(R, RT, RI, pk) ==
    [id |-> pk,
     author |-> RecipeRow(R, pk).author,
     tags |-> {x[2] : x \in {y \in RT : y[1] = pk}},
     ingredients |-> {[id |-> x.ingredient, amount |-> x.amount] :
                        x \in {y \in RI : y.recipe = pk}},
     cooking_time |-> RecipeRow(R, pk).cooking_time]

(***************************************************************************)
(* The computed members of the representations.  A requester is a user id, *)
(* AnonymousUser (request.user of an unauthenticated request) or NoRequest *)
(* (a serializer whose context holds no request).                          *)
(***************************************************************************)
AnonymousUser == 0
NoRequest == -1
Requesters == Users \cup {AnonymousUser}

is_authenticated(request) == request \in Users

\* RecipeReadSerializer.get_is_favorited / get_is_in_shopping_cart
get_is_favorited_any_user(request, pk, FR) ==
    request # NoRequest /\ (is_authenticated(request)
                            /\ \E x \in FR : x.recipe = pk)

get_is_favorited(request, pk, FR) ==
    request # NoRequest /\ (is_authenticated(request)
                            /\ \E x \in FR : x.user = request /\ x.recipe = pk)

get_is_in_shopping_cart(request, pk, SC) ==
    request # NoRequest /\ (is_authenticated(request)
                            /\ \E x \in SC : x.user = request /\ x.recipe = pk)

\* CustomUserSerializer.get_is_subscribed: defined, but no field calls it.
get_is_subscribed(request, author, SUB) ==
    request # NoRequest /\ (is_authenticated(request)
                            /\ \E x \in SUB : x.user = request /\ x.author = author)

\* The attributes a User instance has (the model's fields); no queryset of
\* the views annotates more.
UserAttributes ==
    {"id", "username", "first_name", "last_name", "email", "password"}

\* Serializer.to_representation: a read-only field whose attribute the
\* instance lacks is skipped, a write-only field is never output.
readable_keys(fields, write_only, attributes) ==
    {f \in fields : f \notin write_only /\ f \in attributes}

\* CustomUserSerializer: every field, is_subscribed included (a
\* BooleanField(read_only=True)), reads an attribute of the User instance.
CustomUserSerializerFields ==
    {"id", "username", "first_name", "last_name", "email", "is_subscribed"}

CustomUserSerializer_keys ==
    readable_keys(CustomUserSerializerFields, {}, UserAttributes)

RecipeReadSerializerFields ==
    {"id", "tags", "author", "ingredients", "is_favorited",
     "is_in_shopping_cart", "name", "image", "text", "cooking_time"}

\* RecipeReadSerializer(instance, context={'request': request}).data
recipe_repr(request, pk, FR, SC) ==
    [keys |-> RecipeReadSerializerFields,
     author_keys |-> CustomUserSerializer_keys,
     is_favorited |-> get_is_favorited(request, pk, FR),
     is_in_shopping_cart |-> get_is_in_shopping_cart(request, pk, SC),
     is_subscribed |-> FALSE,
     recipes |-> {},
     recipes_count |-> 0]

\* FavoriteSerializer / ShoppingCartSerializer: Meta.fields = ('user',
\* 'recipe'), both declared write_only.
RecipeUserSerializerFields == {"user", "recipe"}

SubscribeRecipeSerializerFields == {"id", "name", "image", "cooking_time"}

\* SubscribeUserSerializer(author).data: the profile, recipes_count and
\* the previews of the author's recipes.
subscribe_repr(author, R) ==
    [keys |-> CustomUserSerializer_keys \cup {"recipes_count", "recipes"},
     author_keys |-> {},
     is_favorited |-> FALSE,
     is_in_shopping_cart |-> FALSE,
     is_subscribed |-> FALSE,
     recipes |-> {[id |-> x.id, keys |-> SubscribeRecipeSerializerFields] :
                     x \in {y \in R : y.author = author}},
     recipes_count |-> Cardinality({y \in R : y.author = author})]

\* serializer.data of addition() / serializer_author.data of subscribe()
add_repr(kind, t, R) ==
    IF kind = "subscribe" THEN subscribe_repr(t, R)
    ELSE [NoRepr EXCEPT !.keys =
             readable_keys(RecipeUserSerializerFields,
                           RecipeUserSerializerFields,
                           RecipeUserSerializerFields)]

(***************************************************************************)
(* RecipeWriteSerializer: field validation (is_valid).                     *)
(***************************************************************************)
\* validate_tags: non-empty, no duplicate references.
validate_tags_allow_empty(value) ==
    ~(Len(value) > Cardinality(Range(value)))

validate_tags(value) ==
    /\ value # <<>>
    /\ ~(Len(value) > Cardinality(Range(value)))

\* IngredientInRecipeWriteSerializer: each line's amount passes the model
\* field's Min/MaxValueValidator.
amount_valid_min_only(line) == line.amount >= MIN_INGREDIENT_AMOUNT

amount_valid(line) ==
    /\ line.amount >= MIN_INGREDIENT_AMOUNT
    /\ line.amount <= MAX_INGREDIENT_AMOUNT

\* validate_ingredients: non-empty, no ingredient id twice.
validate_ingredients(value) ==
    /\ value # <<>>
    /\ ~(Len(value) > Cardinality({value[i].id : i \in DOMAIN value}))

cooking_time_valid(t) == t >= MIN_COOKING_TIME /\ t <= MAX_COOKING_TIME

\* The set of fields of `data` that fail validation.  A field that is absent
\* is an error ("required") unless the update is partial, in which case it
\* is skipped and its validate_<field> method is not called.
field_errors(data, partial) ==
    {f \in FieldNames :
        IF f \notin data.fields THEN ~partial
        ELSE CASE f = "tags" -> ~validate_tags(data.tags)
               [] f = "ingredients" ->
                      \/ \E i \in DOMAIN data.ingredients :
                             ~amount_valid(data.ingredients[i])
                      \/ ~validate_ingredients(data.ingredients)
               [] f = "cooking_time" -> ~cooking_time_valid(data.cooking_time)}

is_valid(data, partial) == field_errors(data, partial) = {}

\* serializer.validated_data: to_internal_value() runs over the writable
\* fields only, so a key of the request data that names a read_only field
\* is left out of it.
validated_data_author_writable(data) == data

validated_data(data) ==
    [data EXCEPT !.fields = @ \ read_only_fields, !.author = 0]

(***************************************************************************)
(* Storage operations used by RecipeWriteSerializer.create / update.       *)
(***************************************************************************)
\* instance.tags.set(tags_data): the relation becomes exactly the given set.
tags_set_add_only(RT, pk, tags_data) ==
    RT \cup {<<pk, t>> : t \in Range(tags_data)}

tags_set(RT, pk, tags_data) ==
    {x \in RT : x[1] # pk} \cup {<<pk, t>> : t \in Range(tags_data)}

\* instance.ingredients.clear(): deletes every through row of the recipe.
ingredients_clear_noop(RI, pk) == RI

ingredients_clear(RI, pk) == {x \in RI : x.recipe # pk}

\* unique_ingredient_in_recipe: would inserting these lines violate it?
unique_ingredient_in_recipe_violated(RI, pk, ingredients_data) ==
    \/ \E i \in DOMAIN ingredients_data :
           \E x \in RI : x.recipe = pk /\ x.ingredient = ingredients_data[i].id
    \/ \E i, j \in DOMAIN ingredients_data :
           i # j /\ ingredients_data[i].id = ingredients_data[j].id

\* _add_ingredients: bulk_create of one RecipeIngredient row per line.
_add_ingredients_drop_amount(RI, pk, ingredients_data) ==
    RI \cup {[recipe |-> pk, ingredient |-> ingredients_data[i].id,
              amount |-> MIN_INGREDIENT_AMOUNT] : i \in DOMAIN ingredients_data}

_add_ingredients(RI, pk, ingredients_data) ==
    RI \cup {[recipe |-> pk, ingredient |-> ingredients_data[i].id,
              amount |-> ingredients_data[i].amount] : i \in DOMAIN ingredients_data}

\* super().update(instance, validated_data): setattr for each key present
\* in validated_data, then instance.save().
scalars_update(R, pk, data) ==
    {IF x.id = pk
     THEN [x EXCEPT !.cooking_time = IF "cooking_time" \in data.fields
                                     THEN data.cooking_time ELSE @,
                    !.author = IF "author" \in data.fields
                               THEN data.author ELSE @]
     ELSE x : x \in R}


Outcome(error, R, RT, RI) == [error |-> error, R |-> R, RT |-> RT, RI |-> RI]

(***************************************************************************)
(* RecipeWriteSerializer.create under @transaction.atomic: the tables      *)
(* after the call, or the exception raised with the tables rolled back.    *)
(* The call of Recipe.objects.create unpacks validated_data next to the    *)
(* keyword author: the keyword given twice, a TypeError, should            *)
(* validated_data hold an author.                                          *)
(***************************************************************************)
serializer_create(R, RT, RI, pk, author, data) ==
    LET R1 == R \cup {[id |-> pk, author |-> author,
                       cooking_time |-> data.cooking_time]}
        RT1 == tags_set(RT, pk, data.tags)
    IN  IF "author" \in data.fields
        THEN Outcome("TypeError", R, RT, RI)
        ELSE IF unique_ingredient_in_recipe_violated(RI, pk, data.ingredients)
        THEN Outcome("IntegrityError", R, RT, RI)
        ELSE Outcome("none", R1, RT1, _add_ingredients(RI, pk, data.ingredients))

(***************************************************************************)
(* RecipeWriteSerializer.update under @transaction.atomic.  The two pops   *)
(* come first: a payload without the key raises KeyError before any write. *)
(***************************************************************************)
serializer_update_pop_late(R, RT, RI, pk, data) ==
    IF "ingredients" \notin data.fields
    THEN Outcome("KeyError", R, RT, RI)
    ELSE IF "tags" \notin data.fields
    THEN Outcome("KeyError", scalars_update(R, pk, data), RT,
                 ingredients_clear(RI, pk))
    ELSE Outcome("none", scalars_update(R, pk, data),
                 tags_set(RT, pk, data.tags),
                 _add_ingredients(ingredients_clear(RI, pk), pk, data.ingredients))

serializer_update(R, RT, RI, pk, data) ==
    IF "ingredients" \notin data.fields
    THEN Outcome("KeyError", R, RT, RI)
    ELSE IF "tags" \notin data.fields
    THEN Outcome("KeyError", R, RT, RI)
    ELSE LET R1 == scalars_update(R, pk, data)
             RT1 == tags_set(RT, pk, data.tags)
             RI1 == ingredients_clear(RI, pk)
         IN  IF unique_ingredient_in_recipe_violated(RI1, pk, data.ingredients)
             THEN Outcome("IntegrityError", R, RT, RI)
             ELSE Outcome("none", R1, RT1,
                          _add_ingredients(RI1, pk, data.ingredients))

(***************************************************************************)
(* api/permissions.py: IsAuthorOrReadOnly for an unsafe method on obj.     *)
(***************************************************************************)
IsAuthorOrReadOnly(user, obj) == obj.author = user

Exists(R, pk) == \E x \in R : x.id = pk

(***************************************************************************)
(* RecipeViewSet: create (POST), update (PUT), partial_update (PATCH) and  *)
(* destroy (DELETE).  The *_view operators give the status returned and    *)
(* the tables left behind for a request served against tables R, RT, RI.   *)
(***************************************************************************)
ViewOutcome(status, error, R, RT, RI) ==
    [status |-> status, error |-> error, R |-> R, RT |-> RT, RI |-> RI]

create_view(R, RT, RI, pk, u, data) ==
    IF ~is_valid(data, FALSE)
    THEN ViewOutcome(400, "ValidationError", R, RT, RI)
    ELSE LET o == serializer_create(R, RT, RI, pk, u, validated_data(data))
         IN  ViewOutcome(IF o.error = "none" THEN 201 ELSE 500,
                         o.error, o.R, o.RT, o.RI)

update_view_no_permission(R, RT, RI, u, pk, data, partial) ==
    IF ~Exists(R, pk)
    THEN ViewOutcome(404, "NotFound", R, RT, RI)
    ELSE IF ~is_valid(data, partial)
    THEN ViewOutcome(400, "ValidationError", R, RT, RI)
    ELSE LET o == serializer_update(R, RT, RI, pk, validated_data(data))
         IN  ViewOutcome(IF o.error = "none" THEN 200 ELSE 500,
                         o.error, o.R, o.RT, o.RI)

update_view(R, RT, RI, u, pk, data, partial) ==
    IF ~Exists(R, pk)
    THEN ViewOutcome(404, "NotFound", R, RT, RI)
    ELSE IF ~IsAuthorOrReadOnly(u, RecipeRow(R, pk))
    THEN ViewOutcome(403, "PermissionDenied", R, RT, RI)
    ELSE IF ~is_valid(data, partial)
    THEN ViewOutcome(400, "ValidationError", R, RT, RI)
    ELSE LET o == serializer_update(R, RT, RI, pk, validated_data(data))
         IN  ViewOutcome(IF o.error = "none" THEN 200 ELSE 500,
                         o.error, o.R, o.RT, o.RI)

\* The representation returned with a 200/201, and the instance as it was
\* when the view fetched it.
Body(o, pk) ==
    IF o.status \in {200, 201}
    THEN RecipeReadSerializer(o.R, o.RT, o.RI, pk) ELSE NoBody

Repr(o, u, pk) ==
    IF o.status \in {200, 201}
    THEN recipe_repr(u, pk, FavoriteRecipe, ShoppingCart) ELSE NoRepr

Before(pk) ==
    IF Exists(Recipe, pk)
    THEN RecipeReadSerializer(Recipe, Recipe_tags, RecipeIngredient, pk)
    ELSE NoBody

CreateRecipe(u, data) ==
    LET o == create_view(Recipe, Recipe_tags, RecipeIngredient, next_pk, u, data)
    IN  /\ response = NoResponse
        /\ o.status # 400 => next_pk <= MaxRecipes
        /\ Recipe' = o.R
        /\ Recipe_tags' = o.RT
        /\ RecipeIngredient' = o.RI
        /\ next_pk' = IF o.status = 400 THEN next_pk ELSE next_pk + 1
        /\ response' =
              [Reply("create", u, IF o.status = 201 THEN next_pk ELSE 0,
                     FALSE, data, o.status, o.error, NoBody, Body(o, next_pk))
                 EXCEPT !.repr = Repr(o, u, next_pk)]
        /\ UNCHANGED <<relations, inflight>>

UpdateRecipe(u, pk, data, partial) ==
    LET o == update_view(Recipe, Recipe_tags, RecipeIngredient, u, pk, data,
                         partial)
    IN  /\ response = NoResponse
        /\ Recipe' = o.R
        /\ Recipe_tags' = o.RT
        /\ RecipeIngredient' = o.RI
        /\ response' =
              [Reply(IF partial THEN "partial_update" ELSE "update",
                     u, pk, partial, data, o.status, o.error,
                     Before(pk), Body(o, pk))
                 EXCEPT !.repr = Repr(o, u, pk)]
        /\ UNCHANGED <<relations, next_pk, inflight>>

\* on_delete=CASCADE of a foreign key to Recipe: the rows of table T that
\* reference recipe pk are deleted with it.
on_delete_CASCADE_keep(T, pk) == T

on_delete_CASCADE(T, pk) == {x \in T : x.recipe # pk}

\* RecipeViewSet.destroy: instance.delete() and what cascades from it.
DestroyRecipe(u, pk) ==
    /\ response = NoResponse
    /\ UNCHANGED <<Subscribe, next_pk, inflight>>
    /\ IF ~Exists(Recipe, pk)
       THEN /\ response' = Reply("destroy", u, pk, FALSE, NoData, 404,
                                 "NotFound", NoBody, NoBody)
            /\ UNCHANGED <<tables, FavoriteRecipe, ShoppingCart>>
       ELSE IF ~IsAuthorOrReadOnly(u, RecipeRow(Recipe, pk))
       THEN /\ response' = Reply("destroy", u, pk, FALSE, NoData, 403,
                                 "PermissionDenied", Before(pk), NoBody)
            /\ UNCHANGED <<tables, FavoriteRecipe, ShoppingCart>>
       ELSE /\ Recipe' = {x \in Recipe : x.id # pk}
            /\ Recipe_tags' = {x \in Recipe_tags : x[1] # pk}
            /\ RecipeIngredient' = on_delete_CASCADE(RecipeIngredient, pk)
            /\ FavoriteRecipe' = on_delete_CASCADE(FavoriteRecipe, pk)
            /\ ShoppingCart' = on_delete_CASCADE(ShoppingCart, pk)
            /\ response' = Reply("destroy", u, pk, FALSE, NoData, 204, "none",
                                 Before(pk), NoBody)

\* RecipeViewSet.retrieve (GET): the read representation for the requester.
RetrieveRecipe(request, pk) ==
    /\ response = NoResponse
    /\ response' =
          IF ~Exists(Recipe, pk)
          THEN Reply("retrieve", request, pk, FALSE, NoData, 404, "NotFound",
                     NoBody, NoBody)
          ELSE [Reply("retrieve", request, pk, FALSE, NoData, 200, "none",
                      Before(pk), Before(pk))
                  EXCEPT !.repr = recipe_repr(request, pk, FavoriteRecipe,
                                              ShoppingCart)]
    /\ UNCHANGED <<tables, relations, next_pk, inflight>>

(***************************************************************************)
(* Spec: the recipe endpoints, one request at a time.  A handler runs when  *)
(* no response is pending; Deliver hands the response to the caller.       *)
(***************************************************************************)
Deliver ==
    /\ response # NoResponse
    /\ response' = NoResponse
    /\ UNCHANGED <<tables, relations, next_pk, inflight>>

ValidAmounts == {50, 200}
CookingTimes ==
    {MIN_COOKING_TIME - 1, MIN_COOKING_TIME, 30, MAX_COOKING_TIME + 1}

Payloads == PayloadsOver(ValidAmounts, CookingTimes)

Init ==
    /\ Recipe = {}
    /\ Recipe_tags = {}
    /\ RecipeIngredient = {}
    /\ FavoriteRecipe = {}
    /\ ShoppingCart = {}
    /\ Subscribe = {}
    /\ next_pk = 1
    /\ response = NoResponse
    /\ inflight = [w \in Workers |-> IdleWorker]

Idle == response = NoResponse

Create ==
    /\ Idle
    /\ \E u \in Users, data \in Payloads : CreateRecipe(u, data)

Update ==
    /\ Idle
    /\ \E u \in Users, pk \in RecipePks, data \in Payloads :
           UpdateRecipe(u, pk, data, FALSE)

PartialUpdate ==
    /\ Idle
    /\ \E u \in Users, pk \in RecipePks, data \in Payloads :
           UpdateRecipe(u, pk, data, TRUE)

Destroy ==
    /\ Idle
    /\ \E u \in Users, pk \in RecipePks : DestroyRecipe(u, pk)

Next == Create \/ Update \/ PartialUpdate \/ Destroy \/ Deliver

Spec == Init /\ [][Next]_vars


(***************************************************************************)
(* SpecValidate: one request of a recipe endpoint, its payload drawn from  *)
(* every combination of in-range and out-of-range values, served against   *)
(* an empty store or a store holding one recipe.                           *)
(***************************************************************************)
Amounts ==
    {MIN_INGREDIENT_AMOUNT - 1, 50, 200, MAX_INGREDIENT_AMOUNT + 1}

AllPayloads == PayloadsOver(Amounts, CookingTimes)

InitValidate ==
    /\ \/ /\ Recipe = {}
          /\ Recipe_tags = {}
          /\ RecipeIngredient = {}
          /\ next_pk = 1
       \/ /\ Recipe = {[id |-> 1, author |-> 1, cooking_time |-> 30]}
          /\ Recipe_tags = {<<1, 1>>}
          /\ RecipeIngredient = {[recipe |-> 1, ingredient |-> 1, amount |-> 50]}
          /\ next_pk = 2
    /\ FavoriteRecipe = {}
    /\ ShoppingCart = {}
    /\ Subscribe = {}
    /\ response = NoResponse
    /\ inflight = [w \in Workers |-> IdleWorker]

ValidateCreate ==
    /\ Idle
    /\ \E u \in Users, data \in AllPayloads : CreateRecipe(u, data)

ValidateUpdate ==
    /\ Idle
    /\ \E u \in Users, pk \in RecipePks, data \in AllPayloads :
           UpdateRecipe(u, pk, data, FALSE)

ValidatePartialUpdate ==
    /\ Idle
    /\ \E u \in Users, pk \in RecipePks, data \in AllPayloads :
           UpdateRecipe(u, pk, data, TRUE)

NextValidate == ValidateCreate \/ ValidateUpdate \/ ValidatePartialUpdate

SpecValidate == InitValidate /\ [][NextValidate]_vars

(***************************************************************************)
(* SpecAtomic: create() and update() statement by statement inside their   *)
(* @transaction.atomic block, one transaction at a time.  Any statement    *)
(* that touches the store may fail (a constraint violation, a lost         *)
(* connection); the exception leaves the atomic block, which rolls back.   *)
(***************************************************************************)
\* What the store holds once the atomic block is left by an exception.
atomic_rollback_keep(savepoint, current) == current

atomic_rollback(savepoint, current) == savepoint

Snapshot == [R |-> Recipe, RT |-> Recipe_tags, RI |-> RecipeIngredient]

AllIdle == \A w \in Workers : inflight[w].pc = "idle"

AtomicBeginCreate(w, u, data) ==
    /\ is_valid(data, FALSE)
    /\ next_pk <= MaxRecipes
    /\ inflight' = [inflight EXCEPT ![w] =
           [IdleWorker EXCEPT !.pc = "begin", !.op = "create", !.user = u,
                              !.data = validated_data(data),
                              !.savepoint = Snapshot]]
    /\ UNCHANGED <<tables, relations, next_pk, response>>

AtomicBeginUpdate(w, u, pk, data, partial) ==
    /\ Exists(Recipe, pk)
    /\ IsAuthorOrReadOnly(u, RecipeRow(Recipe, pk))
    /\ is_valid(data, partial)
    /\ inflight' = [inflight EXCEPT ![w] =
           [IdleWorker EXCEPT !.pc = "begin",
                              !.op = IF partial THEN "partial_update" ELSE "update",
                              !.user = u, !.pk = pk, !.partial = partial,
                              !.data = validated_data(data),
                              !.savepoint = Snapshot]]
    /\ UNCHANGED <<tables, relations, next_pk, response>>

\* @transaction.atomic: the worker is inside the block, has written and has
\* not yet committed or rolled back.
in_write_phase_autocommit(t) == FALSE

in_write_phase(t) == t.pc \in {"saved", "tags_set", "cleared"}

\* The UPDATE of super().update() locks the Recipe row until the
\* transaction ends: is the row of recipe pk locked by a worker other than w?
row_locked(w, pk) ==
    \E v \in Workers \ {w} :
        in_write_phase(inflight[v]) /\ inflight[v].pk = pk

\* What a statement outside the open transactions reads: their writes are
\* not visible before the commit.
Committed ==
    IF \E w \in Workers : in_write_phase(inflight[w])
    THEN inflight[CHOOSE w \in Workers : in_write_phase(inflight[w])].savepoint
    ELSE Snapshot

\* The exception propagates: rollback of what the block has written, then
\* a 500 for the caller.  The primary-key sequence may or may not give the
\* value back.
Abort(w, error) ==
    LET t == inflight[w]
        back == IF in_write_phase(t)
                THEN atomic_rollback(t.savepoint, Snapshot) ELSE Snapshot
    IN  /\ Recipe' = back.R
        /\ Recipe_tags' = back.RT
        /\ RecipeIngredient' = back.RI
        /\ next_pk' \in {next_pk, IF t.op = "create" /\ t.pk # 0
                                   THEN t.pk ELSE next_pk}
        /\ inflight' = [inflight EXCEPT ![w] =
               [t EXCEPT !.pc = "done", !.status = 500, !.error = error,
                         !.step = t.pc]]
        /\ UNCHANGED <<relations, response>>

Advance(w, pc, pk) ==
    inflight' = [inflight EXCEPT ![w].pc = pc, ![w].pk = pk]

\* Recipe.objects.create(**validated_data, author=author)
StepInsertRecipe(w) ==
    /\ inflight[w].pc = "begin"
    /\ inflight[w].op = "create"
    /\ \E ok \in BOOLEAN :
          IF "author" \in inflight[w].data.fields
          THEN Abort(w, "TypeError")
          ELSE IF ok
          THEN /\ Recipe' = Recipe \cup
                      {[id |-> next_pk, author |-> inflight[w].user,
                        cooking_time |-> inflight[w].data.cooking_time]}
               /\ next_pk' = next_pk + 1
               /\ Advance(w, "saved", next_pk)
               /\ UNCHANGED <<Recipe_tags, RecipeIngredient, relations, response>>
          ELSE Abort(w, "DatabaseError")

\* The two pops, then super().update(instance, validated_data): the first
\* write of the transaction.  While another transaction holds the row lock
\* the statement waits (the step is not taken) or gives up with an error
\* (lock timeout, serialization failure).
StepPopAndSave(w) ==
    /\ inflight[w].pc = "begin"
    /\ inflight[w].op \in {"update", "partial_update"}
    /\ IF ~({"ingredients", "tags"} \subseteq inflight[w].data.fields)
       THEN Abort(w, "KeyError")
       ELSE IF row_locked(w, inflight[w].pk)
       THEN Abort(w, "OperationalError")
       ELSE \E ok \in BOOLEAN :
               IF ok
               THEN /\ Recipe' = scalars_update(Recipe, inflight[w].pk,
                                                inflight[w].data)
                    /\ inflight' = [inflight EXCEPT ![w].pc = "saved",
                                                    ![w].savepoint = Snapshot]
                    /\ UNCHANGED <<Recipe_tags, RecipeIngredient, relations,
                                   next_pk, response>>
               ELSE Abort(w, "DatabaseError")

\* recipe.tags.set(tags_data)
StepSetTags(w) ==
    /\ inflight[w].pc = "saved"
    /\ \E ok \in BOOLEAN :
          IF ok
          THEN /\ Recipe_tags' = tags_set(Recipe_tags, inflight[w].pk,
                                          inflight[w].data.tags)
               /\ Advance(w, IF inflight[w].op = "create"
                             THEN "cleared" ELSE "tags_set", inflight[w].pk)
               /\ UNCHANGED <<Recipe, RecipeIngredient, relations, next_pk,
                              response>>
          ELSE Abort(w, "DatabaseError")

\* instance.ingredients.clear()
StepClear(w) ==
    /\ inflight[w].pc = "tags_set"
    /\ \E ok \in BOOLEAN :
          IF ok
          THEN /\ RecipeIngredient' = ingredients_clear(RecipeIngredient,
                                                        inflight[w].pk)
               /\ Advance(w, "cleared", inflight[w].pk)
               /\ UNCHANGED <<Recipe, Recipe_tags, relations, next_pk, response>>
          ELSE Abort(w, "DatabaseError")

\* self._add_ingredients(...), after which the atomic block commits.
StepAddIngredients(w) ==
    /\ inflight[w].pc = "cleared"
    /\ IF unique_ingredient_in_recipe_violated(RecipeIngredient, inflight[w].pk,
                                               inflight[w].data.ingredients)
       THEN Abort(w, "IntegrityError")
       ELSE \E ok \in BOOLEAN :
               IF ok
               THEN /\ RecipeIngredient' =
                          _add_ingredients(RecipeIngredient, inflight[w].pk,
                                           inflight[w].data.ingredients)
                    /\ inflight' = [inflight EXCEPT
                          ![w].pc = "done",
                          ![w].status = IF inflight[w].op = "create"
                                        THEN 201 ELSE 200]
                    /\ UNCHANGED <<Recipe, Recipe_tags, relations, next_pk,
                                   response>>
               ELSE Abort(w, "DatabaseError")

\* The response is sent; the worker is free again.
Finish(w) ==
    /\ inflight[w].pc = "done"
    /\ inflight' = [inflight EXCEPT ![w] = IdleWorker]
    /\ UNCHANGED <<tables, relations, next_pk, response>>

AtomicCreate ==
    /\ AllIdle
    /\ \E w \in Workers, u \in Users, data \in Payloads :
           AtomicBeginCreate(w, u, data)

AtomicUpdate ==
    /\ AllIdle
    /\ \E w \in Workers, u \in Users, pk \in RecipePks, data \in Payloads,
          partial \in BOOLEAN :
           AtomicBeginUpdate(w, u, pk, data, partial)

InsertRecipe == \E w \in Workers : StepInsertRecipe(w)
PopAndSave == \E w \in Workers : StepPopAndSave(w)
SetTags == \E w \in Workers : StepSetTags(w)
Clear == \E w \in Workers : StepClear(w)
AddIngredients == \E w \in Workers : StepAddIngredients(w)
Finished == \E w \in Workers : Finish(w)

NextAtomic ==
    \/ AtomicCreate \/ AtomicUpdate \/ InsertRecipe \/ PopAndSave
    \/ SetTags \/ Clear \/ AddIngredients \/ Finished

SpecAtomic == Init /\ [][NextAtomic]_vars

(***************************************************************************)
(* SpecConcurrent: two workers each serve one Update of the same recipe,   *)
(* statement by statement and in any interleaving, while readers fetch the *)
(* recipe.  Each update() runs in its own transaction of the relational    *)
(* store: its writes are invisible to others until the commit, and the row *)
(* lock of the first write keeps a second writer of the recipe out.        *)
(***************************************************************************)
ConcurrentPk == 1

ConcurrentSeed ==
    [R |-> {[id |-> ConcurrentPk, author |-> 1, cooking_time |-> 30]},
     RT |-> {<<ConcurrentPk, 1>>},
     RI |-> {[recipe |-> ConcurrentPk, ingredient |-> 1, amount |-> 50]}]

\* Two complete payloads that share no tag and no line with the stored
\* recipe or with each other, and a PATCH that lacks the ingredient list.
ConcurrentPayloads ==
    {[fields |-> FieldNames, tags |-> <<2>>,
      ingredients |-> <<[id |-> 2, amount |-> 200]>>, cooking_time |-> 1,
      author |-> 0],
     [fields |-> FieldNames, tags |-> <<1, 2>>,
      ingredients |-> <<[id |-> 1, amount |-> 200], [id |-> 2, amount |-> 50]>>,
      cooking_time |-> 30, author |-> 0],
     [fields |-> {"tags", "cooking_time"}, tags |-> <<2>>,
      ingredients |-> <<>>, cooking_time |-> 1, author |-> 0]}

InitConcurrent ==
    /\ Recipe = ConcurrentSeed.R
    /\ Recipe_tags = ConcurrentSeed.RT
    /\ RecipeIngredient = ConcurrentSeed.RI
    /\ FavoriteRecipe = {}
    /\ ShoppingCart = {}
    /\ Subscribe = {}
    /\ next_pk = ConcurrentPk + 1
    /\ response = NoResponse
    /\ inflight = [w \in Workers |-> IdleWorker]

\* get_object(), the permission check and is_valid() of an Update; they
\* read what is committed.
ConcurrentBegin ==
    \E w \in Workers, u \in Users, data \in ConcurrentPayloads,
       partial \in BOOLEAN :
        /\ inflight[w].pc = "idle"
        /\ AtomicBeginUpdate(w, u, ConcurrentPk, data, partial)

\* RecipeViewSet.retrieve served while transactions are open.
RetrieveCommitted(request, pk) ==
    /\ response = NoResponse
    /\ response' =
          Reply("retrieve", request, pk, FALSE, NoData, 200, "none", NoBody,
                RecipeReadSerializer(Committed.R, Committed.RT, Committed.RI,
                                     pk))
    /\ UNCHANGED <<tables, relations, next_pk, inflight>>

ConcurrentRetrieve ==
    /\ Idle
    /\ \E request \in Requesters : RetrieveCommitted(request, ConcurrentPk)

NextConcurrent ==
    \/ ConcurrentBegin \/ PopAndSave \/ SetTags \/ Clear \/ AddIngredients
    \/ ConcurrentRetrieve \/ Deliver

SpecConcurrent == InitConcurrent /\ [][NextConcurrent]_vars

(***************************************************************************)
(* Relation toggles: RecipeViewSet.favorite / shopping_cart (addition,     *)
(* deletion) and UserViewSet.subscribe / delete_subscribe.  `kind` names   *)
(* the join table; the target is a recipe pk or, for "subscribe", the      *)
(* author's user id.                                                       *)
(***************************************************************************)
Kinds == {"favorite", "shopping_cart", "subscribe"}

RelTable(kind) ==
    CASE kind = "favorite" -> FavoriteRecipe
      [] kind = "shopping_cart" -> ShoppingCart
      [] kind = "subscribe" -> Subscribe

RelRow(kind, u, t) ==
    IF kind = "subscribe"
    THEN [user |-> u, author |-> t]
    ELSE [user |-> u, recipe |-> t]

\* get_object_or_404(Recipe, pk=pk) / get_object_or_404(User, id=author_id)
TargetExists(kind, t) ==
    IF kind = "subscribe" THEN t \in Users ELSE Exists(Recipe, t)

\* serializer.is_valid(): the reason it raises ValidationError, or "none".
\* FavoriteSerializer.validate and ShoppingCartSerializer.validate look the
\* pair up; SubscribeSerializer has the UniqueTogetherValidator and then
\* validate(), which refuses user == author.
add_validate_no_self_check(kind, T, u, t) ==
    IF RelRow(kind, u, t) \in T THEN "AlreadyExists" ELSE "none"

add_validate(kind, T, u, t) ==
    IF RelRow(kind, u, t) \in T THEN "AlreadyExists"
    ELSE IF kind = "subscribe" /\ u = t THEN "SelfSubscribe"
    ELSE "none"

\* serializer.save(): the INSERT, refused by the table's constraints
\* (unique_favourite, unique_shopping_cart, unique_subscription,
\* user_cannot_follow_himself) with IntegrityError.
insert_refused(kind, T, u, t) ==
    \/ RelRow(kind, u, t) \in T
    \/ kind = "subscribe" /\ u = t

RelOutcome(status, error, T) == [status |-> status, error |-> error, T |-> T]

\* addition() / subscribe() served in one go against table T.
add_view(kind, T, u, t) ==
    IF ~TargetExists(kind, t) THEN RelOutcome(404, "NotFound", T)
    ELSE IF add_validate(kind, T, u, t) # "none"
    THEN RelOutcome(400, add_validate(kind, T, u, t), T)
    ELSE IF insert_refused(kind, T, u, t)
    THEN RelOutcome(500, "IntegrityError", T)
    ELSE RelOutcome(201, "none", T \cup {RelRow(kind, u, t)})

\* deletion() / delete_subscribe(): filter(...).delete(), 400 when it
\* deleted nothing.
remove_view_silent(kind, T, u, t) ==
    IF ~TargetExists(kind, t) THEN RelOutcome(404, "NotFound", T)
    ELSE RelOutcome(204, "none", T \ {RelRow(kind, u, t)})

remove_view(kind, T, u, t) ==
    IF ~TargetExists(kind, t) THEN RelOutcome(404, "NotFound", T)
    ELSE IF RelRow(kind, u, t) \notin T
    THEN RelOutcome(400, "NotInRelation", T)
    ELSE RelOutcome(204, "none", T \ {RelRow(kind, u, t)})

AddOp(kind) == kind
RemoveOp(kind) ==
    CASE kind = "favorite" -> "delete_favorite"
      [] kind = "shopping_cart" -> "delete_shopping_cart"
      [] kind = "subscribe" -> "delete_subscribe"

SetRelTable(kind, T) ==
    /\ FavoriteRecipe' = IF kind = "favorite" THEN T ELSE FavoriteRecipe
    /\ ShoppingCart' = IF kind = "shopping_cart" THEN T ELSE ShoppingCart
    /\ Subscribe' = IF kind = "subscribe" THEN T ELSE Subscribe

AddRelation(kind, u, t) ==
    LET o == add_view(kind, RelTable(kind), u, t)
    IN  /\ response = NoResponse
        /\ SetRelTable(kind, o.T)
        /\ response' =
              [Reply(AddOp(kind), u, t, FALSE, NoData, o.status, o.error,
                     NoBody, NoBody)
                 EXCEPT !.repr = IF o.status = 201
                                 THEN add_repr(kind, t, Recipe) ELSE NoRepr]
        /\ UNCHANGED <<tables, next_pk, inflight>>

RemoveRelation(kind, u, t) ==
    LET o == remove_view(kind, RelTable(kind), u, t)
    IN  /\ response = NoResponse
        /\ SetRelTable(kind, o.T)
        /\ response' = Reply(RemoveOp(kind), u, t, FALSE, NoData, o.status,
                             o.error, NoBody, NoBody)
        /\ UNCHANGED <<tables, next_pk, inflight>>

(***************************************************************************)
(* SpecRelation: the toggles, one request at a time, over a store holding  *)
(* two recipes.  Target 3 is neither a recipe nor a user.                  *)
(***************************************************************************)
SeedRecipe == {[id |-> 1, author |-> 1, cooking_time |-> 30],
               [id |-> 2, author |-> 2, cooking_time |-> 1]}
SeedTags == {<<1, 1>>, <<2, 1>>, <<2, 2>>}
SeedLines == {[recipe |-> 1, ingredient |-> 1, amount |-> 200],
              [recipe |-> 1, ingredient |-> 2, amount |-> 50],
              [recipe |-> 2, ingredient |-> 1, amount |-> 300]}

Targets == {1, 2, 3}

InitRelation ==
    /\ Recipe = SeedRecipe
    /\ Recipe_tags = SeedTags
    /\ RecipeIngredient = SeedLines
    /\ FavoriteRecipe = {}
    /\ ShoppingCart = {}
    /\ Subscribe = {}
    /\ next_pk = 3
    /\ response = NoResponse
    /\ inflight = [w \in Workers |-> IdleWorker]

Add ==
    /\ Idle
    /\ \E kind \in Kinds, u \in Users, t \in Targets : AddRelation(kind, u, t)

Remove ==
    /\ Idle
    /\ \E kind \in Kinds, u \in Users, t \in Targets : RemoveRelation(kind, u, t)

NextRelation == Add \/ Remove \/ Deliver

SpecRelation == InitRelation /\ [][NextRelation]_vars

(***************************************************************************)
(* SpecApi: every endpoint of the recipes and of the relations, one        *)
(* request at a time, from the empty store: recipes are created, updated,  *)
(* read and deleted while users toggle favorites, carts and subscriptions. *)
(***************************************************************************)
ApiTagLists == {<<>>, <<1>>, <<1, 1>>, <<1, 2>>}

ApiLine(i) == [id |-> i, amount |-> 50]

ApiLineLists ==
    {<<>>, <<ApiLine(1)>>, <<ApiLine(1), ApiLine(1)>>, <<ApiLine(1), ApiLine(2)>>}

\* Payloads with and without each list; a list is empty, valid or has a
\* duplicate.
ApiPayloads ==
    {p \in PayloadsOver({50}, {30}) :
        /\ "cooking_time" \in p.fields
        /\ p.tags \in ApiTagLists
        /\ p.ingredients \in ApiLineLists}

ApiTargets == {1, 2}

ApiCreate ==
    /\ Idle
    /\ \E u \in Users, data \in ApiPayloads : CreateRecipe(u, data)

ApiUpdate ==
    /\ Idle
    /\ \E u \in Users, pk \in RecipePks, data \in ApiPayloads,
          partial \in BOOLEAN :
           UpdateRecipe(u, pk, data, partial)

ApiDestroy ==
    /\ Idle
    /\ \E u \in Users, pk \in RecipePks : DestroyRecipe(u, pk)

ApiRetrieve ==
    /\ Idle
    /\ \E request \in Requesters, pk \in RecipePks : RetrieveRecipe(request, pk)

ApiAdd ==
    /\ Idle
    /\ \E kind \in Kinds, u \in Users, t \in ApiTargets :
           AddRelation(kind, u, t)

ApiRemove ==
    /\ Idle
    /\ \E kind \in Kinds, u \in Users, t \in ApiTargets :
           RemoveRelation(kind, u, t)

NextApi ==
    \/ ApiCreate \/ ApiUpdate \/ ApiDestroy \/ ApiRetrieve
    \/ ApiAdd \/ ApiRemove \/ Deliver

SpecApi == Init /\ [][NextApi]_vars

(***************************************************************************)
(* SpecAuthor: the recipe endpoints served with request data that may      *)
(* carry an "author" key naming any user, the requester or another.        *)
(***************************************************************************)
AuthorPayloads == WithAuthor(ApiPayloads)

CreateWithAuthor ==
    /\ Idle
    /\ \E u \in Users, data \in AuthorPayloads : CreateRecipe(u, data)

UpdateWithAuthor ==
    /\ Idle
    /\ \E u \in Users, pk \in RecipePks, data \in AuthorPayloads,
          partial \in BOOLEAN :
           UpdateRecipe(u, pk, data, partial)

NextAuthor == CreateWithAuthor \/ UpdateWithAuthor \/ Destroy \/ Deliver

SpecAuthor == Init /\ [][NextAuthor]_vars

(***************************************************************************)
(* SpecRace: two workers serve Add requests concurrently.  An Add is two   *)
(* steps, the lookup in is_valid() and the INSERT in save(), and another   *)
(* worker may run between them.                                            *)
(***************************************************************************)
RaceTargets == {1}

\* get_object_or_404 and serializer.is_valid(raise_exception=True)
AddCheck(w, kind, u, t) ==
    LET err == add_validate(kind, RelTable(kind), u, t)
        req == [IdleWorker EXCEPT !.op = AddOp(kind), !.user = u, !.pk = t]
    IN  /\ inflight[w].pc = "idle"
        /\ inflight' = [inflight EXCEPT ![w] =
               IF ~TargetExists(kind, t)
               THEN [req EXCEPT !.pc = "done", !.status = 404,
                                !.error = "NotFound"]
               ELSE IF err # "none"
               THEN [req EXCEPT !.pc = "done", !.status = 400, !.error = err]
               ELSE [req EXCEPT !.pc = "validated"]]
        /\ UNCHANGED <<tables, relations, next_pk, response>>

\* serializer.save(); an IntegrityError is caught nowhere and ends as a 500.
AddSave(w) ==
    LET kind == inflight[w].op
        u == inflight[w].user
        t == inflight[w].pk
    IN  /\ inflight[w].pc = "validated"
        /\ IF insert_refused(kind, RelTable(kind), u, t)
           THEN /\ inflight' = [inflight EXCEPT ![w].pc = "done",
                                   ![w].status = 500,
                                   ![w].error = "IntegrityError"]
                /\ UNCHANGED relations
           ELSE /\ inflight' = [inflight EXCEPT ![w].pc = "done",
                                   ![w].status = 201]
                /\ SetRelTable(kind, RelTable(kind) \cup {RelRow(kind, u, t)})
        /\ UNCHANGED <<tables, next_pk, response>>

RaceCheck ==
    \E w \in Workers, kind \in Kinds, u \in Users, t \in RaceTargets :
        AddCheck(w, kind, u, t)

RaceSave == \E w \in Workers : AddSave(w)

NextRace == RaceCheck \/ RaceSave \/ Finished

SpecRace == InitRelation /\ [][NextRace]_vars

(***************************************************************************)
(* RecipeViewSet.download_shopping_cart: the aggregation                   *)
(*   RecipeIngredient.objects.filter(recipe__shopping_cart__user=user)     *)
(*       .values('ingredient__name', 'ingredient__measurement_unit')       *)
(*       .annotate(amount=Sum('amount'))                                   *)
(* The filter joins RecipeIngredient with ShoppingCart on the recipe;      *)
(* values() + annotate() group the joined rows by (name, unit).  Django    *)
(* 3.1 and later (recipes/admin.py uses @admin.display, new in 3.2) do not *)
(* add Meta.ordering to the GROUP BY.                                      *)
(***************************************************************************)
\* The join without the user condition: the lines of every cart.
Joined_any_user(RI, SC, u) ==
    {jr \in RI \X SC : jr[2].recipe = jr[1].recipe}

Joined(RI, SC, u) ==
    {jr \in RI \X SC : jr[2].recipe = jr[1].recipe /\ jr[2].user = u}

RECURSIVE SumAmount(_)
SumAmount(rows) ==
    IF rows = {} THEN 0
    ELSE LET jr == CHOOSE x \in rows : TRUE
         IN  jr[1].amount + SumAmount(rows \ {jr})

GroupKey(jr) ==
    [name |-> IngredientRow(jr[1].ingredient).name,
     measurement_unit |-> IngredientRow(jr[1].ingredient).measurement_unit]

\* As Django before 3.1 would group: Meta.ordering = ('recipe',) in GROUP BY.
shopping_items_by_recipe(RI, SC, u) ==
    LET rows == Joined(RI, SC, u)
    IN  {[name |-> GroupKey(jr).name,
          measurement_unit |-> GroupKey(jr).measurement_unit,
          amount |-> SumAmount({x \in rows : /\ GroupKey(x) = GroupKey(jr)
                                             /\ x[1].recipe = jr[1].recipe})] :
            jr \in rows}

shopping_items(RI, SC, u) ==
    LET rows == Joined(RI, SC, u)
    IN  {[name |-> k.name, measurement_unit |-> k.measurement_unit,
          amount |-> SumAmount({x \in rows : GroupKey(x) = k})] :
            k \in {GroupKey(jr) : jr \in rows}}

\* The queryset is iterated in the order the database returns the groups,
\* which no ORDER BY fixes: any ordering of the items.
Orderings(S) == {q \in [1..Cardinality(S) -> S] : Range(q) = S}

\* f'{today:%Y-%m-%d}' and f'{today:%Y}' of datetime.today()
Pad2(n) == IF n < 10 THEN "0" \o ToString(n) ELSE ToString(n)

strftime_Ymd(today) ==
    ToString(today.year) \o "-" \o Pad2(today.month) \o "-" \o Pad2(today.day)

strftime_Y(today) == ToString(today.year)

\* AbstractUser.get_full_name(): first and last name with a space between.
get_full_name(u) == UserRow(u).first_name \o " " \o UserRow(u).last_name

\* One element of the list comprehension: the three adjacent f-strings.
render_line(ingredient) ==
    "- " \o ingredient.name
         \o "(" \o ingredient.measurement_unit \o ")"
         \o " - " \o ToString(ingredient.amount)

RECURSIVE join(_, _)
join(sep, lines) ==
    IF lines = <<>> THEN ""
    ELSE IF Len(lines) = 1 THEN lines[1]
    ELSE lines[1] \o sep \o join(sep, Tail(lines))

\* The Cyrillic literals of the header are written in Latin letters here.
HeaderLabel == "Spisok pokupok dlya: "
DateLabel == "Data: "

render_shopping_list(u, today, ingredients) ==
    LET lines == [i \in DOMAIN ingredients |-> render_line(ingredients[i])]
    IN  [text |-> HeaderLabel \o get_full_name(u) \o "\n\n"
                    \o DateLabel \o strftime_Ymd(today) \o "\n\n"
                    \o join("\n", lines)
                    \o "\n\nFoodgram (" \o strftime_Y(today) \o ")",
         lines |-> lines,
         filename |-> UserRow(u).username \o "_shopping_list.txt"]

DownloadOutcome(status, error, items, document) ==
    [status |-> status, error |-> error, items |-> items,
     document |-> document]

\* download_shopping_cart served against cart table SC; `ingredients` is
\* the aggregation queryset as iterated.
download_shopping_cart_no_empty_check(SC, u, today, ingredients) ==
    DownloadOutcome(200, "none", Range(ingredients),
                    render_shopping_list(u, today, ingredients))

download_shopping_cart(SC, u, today, ingredients) ==
    IF ~(\E c \in SC : c.user = u)
    THEN DownloadOutcome(400, "EmptyCart", {}, NoDocument)
    ELSE DownloadOutcome(200, "none", Range(ingredients),
                         render_shopping_list(u, today, ingredients))

DownloadShoppingCart(u, today) ==
    /\ response = NoResponse
    /\ \E ingredients \in
            Orderings(shopping_items(RecipeIngredient, ShoppingCart, u)) :
          LET o == download_shopping_cart(ShoppingCart, u, today, ingredients)
          IN  response' =
                 [Reply("download_shopping_cart", u, 0, FALSE, NoData,
                        o.status, o.error, NoBody, NoBody)
                    EXCEPT !.items = o.items, !.document = o.document]
    /\ UNCHANGED <<tables, relations, next_pk, inflight>>

(***************************************************************************)
(* SpecShopping: two recipes whose ingredient lines are drawn from every   *)
(* combination of ingredients and amounts; users fill and empty their      *)
(* carts and download the list.                                            *)
(***************************************************************************)
ShopAmounts == {50, 200, 300}

\* The amounts the lines of recipe pk are drawn from.
AmountsOfRecipe(pk) == IF pk = 1 THEN ShopAmounts \ {300} ELSE ShopAmounts \ {200}

\* A recipe's lines: a non-empty choice of amount per ingredient (0: none).
LineChoices(pk) ==
    {f \in [{x.id : x \in Ingredient} -> AmountsOfRecipe(pk) \cup {0}] :
        \E i \in DOMAIN f : f[i] # 0}

LinesOf(pk, f) ==
    {[recipe |-> pk, ingredient |-> i, amount |-> f[i]] :
        i \in {j \in DOMAIN f : f[j] # 0}}

InitShopping ==
    /\ Recipe = SeedRecipe
    /\ Recipe_tags = SeedTags
    /\ \E f1 \in LineChoices(1), f2 \in LineChoices(2) :
           RecipeIngredient = LinesOf(1, f1) \cup LinesOf(2, f2)
    /\ FavoriteRecipe = {}
    /\ ShoppingCart = {}
    /\ Subscribe = {}
    /\ next_pk = 3
    /\ response = NoResponse
    /\ inflight = [w \in Workers |-> IdleWorker]

AddToCart ==
    /\ Idle
    /\ \E u \in Users, t \in {x.id : x \in SeedRecipe} :
           AddRelation("shopping_cart", u, t)

RemoveFromCart ==
    /\ Idle
    /\ \E u \in Users, t \in {x.id : x \in SeedRecipe} :
           RemoveRelation("shopping_cart", u, t)

\* Days on which a list is generated, one with a one-digit month and day.
Dates == {[year |-> 2024, month |-> 3, day |-> 5],
          [year |-> 2023, month |-> 12, day |-> 31]}

Download ==
    /\ Idle
    /\ \E u \in Users, today \in Dates : DownloadShoppingCart(u, today)

NextShopping == AddToCart \/ RemoveFromCart \/ Download \/ Deliver

SpecShopping == InitShopping /\ [][NextShopping]_vars

(***************************************************************************)
(* SpecIsolation: the toggles of all three relations and the download of   *)
(* the shopping list, one request at a time, over the store of two         *)
(* recipes: users favorite, cart and subscribe side by side and each       *)
(* downloads their own list.                                               *)
(***************************************************************************)
NextIsolation == Add \/ Remove \/ Download \/ Deliver

SpecIsolation == InitRelation /\ [][NextIsolation]_vars

(***************************************************************************)
(* Properties of the recipe aggregate.                                     *)
(***************************************************************************)
CurrentRead(pk) ==
    RecipeReadSerializer(Recipe, Recipe_tags, RecipeIngredient, pk)

UpdateOps == {"update", "partial_update"}

\* C1: after a successful Create, reading the new recipe back yields exactly
\* the N input tags and exactly the M input (ingredient, amount) lines,
\* nothing missing and nothing extra; the representation returned is that
\* read-back.
CreateReadsBackInput ==
    (response.op = "create" /\ response.status = 201) =>
        /\ Exists(Recipe, response.pk)
        /\ LET r == CurrentRead(response.pk)
               d == response.data
           IN  /\ r.tags = Range(d.tags)
               /\ Cardinality(r.tags) = Len(d.tags)
               /\ r.ingredients = Range(d.ingredients)
               /\ Cardinality(r.ingredients) = Len(d.ingredients)
               /\ response.body = r

\* A recipe was created with two tags and two lines of different amounts.
CreateReadsBackInputWitness ==
    /\ response.op = "create"
    /\ response.status = 201
    /\ Len(response.data.tags) = 2
    /\ Len(response.data.ingredients) = 2
    /\ response.data.ingredients[1].amount # response.data.ingredients[2].amount

\* C2: after a successful Update the recipe's tag set is exactly the
\* payload's tag list and its line set exactly the payload's lines, whatever
\* it had before: no previous tag or line survives or is merged.
UpdateReplacesTagsAndLines ==
    (response.op \in UpdateOps /\ response.status = 200) =>
        LET r == CurrentRead(response.pk)
            d == response.data
        IN  /\ r.tags = Range(d.tags)
            /\ Cardinality(r.tags) = Len(d.tags)
            /\ r.ingredients = Range(d.ingredients)
            /\ Cardinality(r.ingredients) = Len(d.ingredients)
            /\ response.body = r

\* An update succeeded on a recipe whose previous tags and lines are all
\* different from the payload's.
UpdateReplacesTagsAndLinesWitness ==
    /\ response.op = "update"
    /\ response.status = 200
    /\ response.before.tags # {}
    /\ response.before.tags \cap Range(response.data.tags) = {}
    /\ response.before.ingredients # {}
    /\ {l.id : l \in response.before.ingredients}
           \cap {l.id : l \in Range(response.data.ingredients)} = {}

EmptyTags(d) == "tags" \in d.fields /\ Len(d.tags) = 0

DuplicateTag(d) ==
    \E i, j \in DOMAIN d.tags : i # j /\ d.tags[i] = d.tags[j]

EmptyIngredients(d) == "ingredients" \in d.fields /\ Len(d.ingredients) = 0

DuplicateIngredient(d) ==
    \E i, j \in DOMAIN d.ingredients :
        i # j /\ d.ingredients[i].id = d.ingredients[j].id

AmountOutOfRange(d) ==
    \E i \in DOMAIN d.ingredients :
        \/ d.ingredients[i].amount < MIN_INGREDIENT_AMOUNT
        \/ d.ingredients[i].amount > MAX_INGREDIENT_AMOUNT

CookingTimeOutOfRange(d) ==
    /\ "cooking_time" \in d.fields
    /\ \/ d.cooking_time < MIN_COOKING_TIME
       \/ d.cooking_time > MAX_COOKING_TIME

Violates(d) ==
    \/ EmptyTags(d) \/ DuplicateTag(d)
    \/ EmptyIngredients(d) \/ DuplicateIngredient(d)
    \/ AmountOutOfRange(d) \/ CookingTimeOutOfRange(d)

RecipeWriteOps == {"create", "update", "partial_update"}

\* C4: a Create or Update whose input has an empty tag list, a duplicate tag,
\* an empty ingredient list, an ingredient id twice, an amount outside
\* [MIN_INGREDIENT_AMOUNT, MAX_INGREDIENT_AMOUNT] or a cooking time outside
\* [MIN_COOKING_TIME, MAX_COOKING_TIME] is rejected with ValidationError;
\* an input that violates none of these and carries every field (for a
\* partial update: both lists) is accepted.  Requests that end in NotFound
\* or Forbidden never reach validation.
Complete(op, d) ==
    IF op = "partial_update"
    THEN {"tags", "ingredients"} \subseteq d.fields
    ELSE d.fields = FieldNames

ValidationRejectsExactly ==
    (response.op \in RecipeWriteOps /\ response.status \notin {403, 404}) =>
        /\ Violates(response.data) =>
               response.status = 400 /\ response.error = "ValidationError"
        /\ (Complete(response.op, response.data) /\ ~Violates(response.data)) =>
               response.status \in {200, 201} /\ response.error = "none"

\* An update whose only fault is an amount above the maximum was rejected.
ValidationRejectsExactlyWitness ==
    /\ response.op = "update"
    /\ response.status = 400
    /\ response.data.fields = FieldNames
    /\ \E i \in DOMAIN response.data.ingredients :
           response.data.ingredients[i].amount > MAX_INGREDIENT_AMOUNT
    /\ \A i \in DOMAIN response.data.ingredients :
           response.data.ingredients[i].amount >= MIN_INGREDIENT_AMOUNT
    /\ ~EmptyTags(response.data) /\ ~DuplicateTag(response.data)
    /\ ~DuplicateIngredient(response.data)
    /\ ~CookingTimeOutOfRange(response.data)

\* C5: an Update that is rejected, whatever the reason (an invalid field, a
\* payload without tag list or ingredient list, NotFound, Forbidden), leaves
\* the Recipe row, its tag rows and its RecipeIngredient rows as they were
\* before the call.
RejectedUpdateChangesNothing ==
    [][(response = NoResponse /\ response'.op \in UpdateOps
            /\ response'.status # 200)
        => UNCHANGED <<Recipe, Recipe_tags, RecipeIngredient>>]_vars

\* A partial update carrying ingredients but no tag list was rejected on a
\* recipe that had ingredient lines.
RejectedUpdateChangesNothingWitness ==
    /\ response.op = "partial_update"
    /\ response.status # 200
    /\ "tags" \notin response.data.fields
    /\ "ingredients" \in response.data.fields
    /\ Len(response.data.ingredients) > 0
    /\ response.before.ingredients # {}
    /\ response.before.author = response.user


\* C6: Create and Update are atomic.  When a statement of the write fails
\* after the transaction has begun, the Recipe, Recipe-Tag and
\* RecipeIngredient tables equal their state before the transaction; when
\* the write succeeds, the row, its tags and its lines are all there; and
\* outside a transaction no Recipe row is without tags or without lines.
AtomicAllOrNothing ==
    /\ \A w \in Workers :
          inflight[w].pc = "done" =>
             IF inflight[w].status = 500
             THEN Snapshot = inflight[w].savepoint
             ELSE /\ Exists(Recipe, inflight[w].pk)
                  /\ CurrentRead(inflight[w].pk).tags
                         = Range(inflight[w].data.tags)
                  /\ CurrentRead(inflight[w].pk).ingredients
                         = Range(inflight[w].data.ingredients)
    /\ (\A w \in Workers : inflight[w].pc \in {"idle", "done"}) =>
          \A x \in Recipe :
             /\ CurrentRead(x.id).tags # {}
             /\ CurrentRead(x.id).ingredients # {}

\* An update failed right after clear() had deleted the recipe's lines.
AtomicAllOrNothingWitness ==
    \E w \in Workers :
        /\ inflight[w].pc = "done"
        /\ inflight[w].status = 500
        /\ inflight[w].op = "update"
        /\ inflight[w].step = "cleared"
        /\ inflight[w].error = "DatabaseError"
        /\ inflight[w].savepoint.RI # {}

(***************************************************************************)
(* Properties of the relations.  The taxonomy of failures: Conflict is the *)
(* 400 for a pair that is already there, NotFound of a Remove the 400 for  *)
(* a pair that is not there, ValidationError the 400 of a self-            *)
(* subscription; a 500 is none of them.                                    *)
(***************************************************************************)
IsConflict(r) == r.status = 400 /\ r.error = "AlreadyExists"

IsNotFound(r) == r.status = 400 /\ r.error = "NotInRelation"

IsValidationError(r) == r.status = 400 /\ r.error = "SelfSubscribe"

\* The request answered by this step is Add(kind, u, t) / Remove(kind, u, t).
AddStep(kind, u, t) ==
    /\ response = NoResponse
    /\ response'.op = AddOp(kind)
    /\ response'.user = u
    /\ response'.pk = t

RemoveStep(kind, u, t) ==
    /\ response = NoResponse
    /\ response'.op = RemoveOp(kind)
    /\ response'.user = u
    /\ response'.pk = t

AddSucceeds(kind, u, t) ==
    /\ response'.status = 201
    /\ RelTable(kind)' = RelTable(kind) \cup {RelRow(kind, u, t)}
    /\ IsConflict(add_view(kind, RelTable(kind)', u, t))

RemoveSucceeds(kind, u, t) ==
    /\ response'.status = 204
    /\ RelTable(kind)' = RelTable(kind) \ {RelRow(kind, u, t)}
    /\ IsNotFound(remove_view(kind, RelTable(kind)', u, t))

RemoveIsTwoState(kind, u, t) ==
    RemoveStep(kind, u, t) =>
        IF RelRow(kind, u, t) \in RelTable(kind)
        THEN RemoveSucceeds(kind, u, t)
        ELSE IsNotFound(response') /\ UNCHANGED relations

\* C7: for each of Favorite, ShoppingCart and Subscription and each
\* existing target, Remove(u, t) succeeds exactly when the pair is present
\* and otherwise fails with NotFound; Add(u, t) succeeds exactly when the
\* pair is absent and is not a user subscribing to themselves, fails with
\* Conflict when the pair is present, and fails with ValidationError for a
\* self-subscription.  A success changes exactly that pair, a failure
\* changes nothing, and repeating a successful Add (Remove) right away
\* fails with Conflict (NotFound).
RelationTwoStateMachine ==
    [][\A kind \in Kinds, u \in Users, t \in Targets :
          TargetExists(kind, t) =>
             /\ AddStep(kind, u, t) =>
                   IF RelRow(kind, u, t) \in RelTable(kind)
                   THEN IsConflict(response') /\ UNCHANGED relations
                   ELSE IF kind = "subscribe" /\ u = t
                   THEN IsValidationError(response') /\ UNCHANGED relations
                   ELSE AddSucceeds(kind, u, t)
             /\ RemoveIsTwoState(kind, u, t)]_vars

\* A pair was removed from a cart that held it.
RelationTwoStateMachineWitness ==
    /\ response.op = "delete_shopping_cart"
    /\ response.status = 204
    /\ [user |-> response.user, recipe |-> response.pk] \notin ShoppingCart
    /\ ShoppingCart # {}
    /\ Subscribe # {}

\* C7 as first stated: Add(u, t) succeeds if and only if the pair is absent,
\* for all three relations alike.
RelationTwoStateMachineAsStated ==
    [][\A kind \in Kinds, u \in Users, t \in Targets :
          TargetExists(kind, t) =>
             /\ AddStep(kind, u, t) =>
                   IF RelRow(kind, u, t) \in RelTable(kind)
                   THEN IsConflict(response') /\ UNCHANGED relations
                   ELSE AddSucceeds(kind, u, t)
             /\ RemoveIsTwoState(kind, u, t)]_vars

\* C8: no Subscription ever has user = author, and an attempt to create
\* one is answered with a ValidationError.
SelfSubscriptionImpossible ==
    /\ \A x \in Subscribe : x.user # x.author
    /\ (response.op = "subscribe" /\ response.user = response.pk) =>
          IsValidationError(response)

\* A user tried to subscribe to themselves while following someone else.
SelfSubscriptionImpossibleWitness ==
    /\ response.op = "subscribe"
    /\ response.user = response.pk
    /\ response.status = 400
    /\ \E x \in Subscribe : x.user = response.user

\* C9: of two concurrent identical Adds one succeeds and the other is
\* answered with Conflict.
ConcurrentAddsOneConflict ==
    \A w, v \in Workers :
        ( /\ w # v
          /\ inflight[w].pc = "done"
          /\ inflight[v].pc = "done"
          /\ inflight[w].op = inflight[v].op
          /\ inflight[w].user = inflight[v].user
          /\ inflight[w].pk = inflight[v].pk
          /\ inflight[w].status = 201 )
        => IsConflict(inflight[v])

(***************************************************************************)
(* Properties of the shopping list.                                        *)
(***************************************************************************)
RECURSIVE Sum(_, _)
Sum(f, S) ==
    IF S = {} THEN 0
    ELSE LET x == CHOOSE y \in S : TRUE
         IN  f[x] + Sum(f, S \ {x})

\* The amount recipe pk asks of ingredient i, 0 when it has no such line.
AmountIn(pk, i) ==
    IF \E x \in RecipeIngredient : x.recipe = pk /\ x.ingredient = i
    THEN (CHOOSE x \in RecipeIngredient :
              x.recipe = pk /\ x.ingredient = i).amount
    ELSE 0

InCart(u) == {c.recipe : c \in {x \in ShoppingCart : x.user = u}}

\* The total of (name, unit) over the recipes in u's cart.
Total(u, name, unit) ==
    LET ids == {x.id : x \in {y \in Ingredient :
                   y.name = name /\ y.measurement_unit = unit}}
        perRecipe == [pk \in InCart(u) |->
                         Sum([i \in ids |-> AmountIn(pk, i)], ids)]
    IN  Sum(perRecipe, InCart(u))

\* The cart of the example: R1 = {Flour/g 200, Sugar/g 50}, R2 = {Flour/g 300}.
ExampleCart(u) ==
    /\ InCart(u) = {1, 2}
    /\ RecipeIngredient = SeedLines

\* C10: the shopping list of a user with a non-empty cart has exactly one
\* item per distinct (name, unit) among the lines of the recipes in the
\* cart, and its amount is the sum of those lines' amounts; for the example
\* cart it is {Flour/g/500, Sugar/g/50}.
ShoppingListAggregates ==
    (response.op = "download_shopping_cart" /\ response.status = 200) =>
        LET u == response.user
            pairs == {<<IngredientRow(x.ingredient).name,
                        IngredientRow(x.ingredient).measurement_unit>> :
                         x \in {y \in RecipeIngredient :
                                   y.recipe \in InCart(u)}}
        IN  /\ InCart(u) # {}
            /\ response.items =
                  {[name |-> p[1], measurement_unit |-> p[2],
                    amount |-> Total(u, p[1], p[2])] : p \in pairs}
            /\ Cardinality(response.items) = Cardinality(pairs)
            /\ ExampleCart(u) =>
                  response.items =
                     {[name |-> "Flour", measurement_unit |-> "g",
                       amount |-> 500],
                      [name |-> "Sugar", measurement_unit |-> "g",
                       amount |-> 50]}

\* The list of the example cart was downloaded.
ShoppingListAggregatesWitness ==
    /\ response.op = "download_shopping_cart"
    /\ response.status = 200
    /\ ExampleCart(response.user)
    /\ [name |-> "Flour", measurement_unit |-> "g", amount |-> 500]
           \in response.items

\* C11: exporting the shopping list of a user whose cart holds no recipe
\* fails with EmptyCollection (a 400) and produces no document, whatever
\* other users' carts hold; for a user with at least one cart entry it
\* succeeds and returns a document.
ExportEmptyCartFails ==
    response.op = "download_shopping_cart" =>
        IF InCart(response.user) = {}
        THEN /\ response.status = 400
             /\ response.error = "EmptyCart"
             /\ response.document = NoDocument
             /\ response.items = {}
        ELSE /\ response.status = 200
             /\ response.document # NoDocument
             /\ response.document.text # ""
             /\ response.document.filename # ""

\* A user with an empty cart asked for the list while another user's cart
\* was not empty.
ExportEmptyCartFailsWitness ==
    /\ response.op = "download_shopping_cart"
    /\ response.status = 400
    /\ InCart(response.user) = {}
    /\ ShoppingCart # {}

\* The item line and the document as the format is specified.
SpecifiedLine(item) ==
    "- " \o item.name \o " (" \o item.measurement_unit \o ") - "
         \o ToString(item.amount)

SpecifiedText(u, today, lines) ==
    HeaderLabel \o get_full_name(u) \o "\n\n"
        \o DateLabel \o strftime_Ymd(today) \o "\n\n"
        \o join("\n", lines)
        \o "\n\nFoodgram (" \o strftime_Y(today) \o ")"

\* C18: the rendered list has one line per aggregated item, each of the
\* form '- {name} ({unit}) - {total}', between a header with the user's
\* full name and the date as YYYY-MM-DD and a footer with the product name
\* and the year; there are as many item lines as items.
ShoppingListRendered ==
    (response.op = "download_shopping_cart" /\ response.status = 200) =>
        LET doc == response.document
        IN  /\ Len(doc.lines) = Cardinality(response.items)
            /\ {doc.lines[i] : i \in DOMAIN doc.lines}
                  = {SpecifiedLine(item) : item \in response.items}
            /\ \E today \in Dates :
                  doc.text = SpecifiedText(response.user, today, doc.lines)

(***************************************************************************)
(* Properties of the store as a whole.                                     *)
(***************************************************************************)
References(pk) ==
    {x \in RecipeIngredient : x.recipe = pk}
        \cup {x \in FavoriteRecipe : x.recipe = pk}
        \cup {x \in ShoppingCart : x.recipe = pk}

OnlyAuthorWrites ==
    ( /\ response.op \in {"update", "partial_update", "destroy"}
      /\ response.before # NoBody
      /\ response.before.author # response.user )
    => /\ response.status = 403
       /\ response.error = "PermissionDenied"
       /\ Exists(Recipe, response.pk)
       /\ CurrentRead(response.pk) = response.before

\* A non-author sent an Update that the author could have made.
OnlyAuthorWritesWitness ==
    /\ response.op = "update"
    /\ response.status = 403
    /\ response.before.author # response.user
    /\ is_valid(response.data, FALSE)
    /\ Range(response.data.tags) # response.before.tags

\* C14: every stored recipe has at least one tag and at least one
\* ingredient line, and no two of its lines name the same ingredient,
\* whatever requests (create, update, partial update, delete, toggles of
\* the relations) were served.
RecipeAlwaysComplete ==
    \A x \in Recipe :
        /\ \E t \in Recipe_tags : t[1] = x.id
        /\ \E l \in RecipeIngredient : l.recipe = x.id
        /\ \A l1, l2 \in RecipeIngredient :
              (l1.recipe = x.id /\ l2.recipe = x.id
                  /\ l1.ingredient = l2.ingredient) => l1 = l2

\* An update with an empty tag list was refused while the recipe was
\* somebody's favorite.
RecipeAlwaysCompleteWitness ==
    /\ response.op \in UpdateOps
    /\ "tags" \in response.data.fields
    /\ response.data.tags = <<>>
    /\ response.status = 400
    /\ Exists(Recipe, response.pk)
    /\ \E x \in FavoriteRecipe : x.recipe = response.pk

(***************************************************************************)
(* Properties of the representations.                                      *)
(***************************************************************************)
\* The responses that carry a recipe's read representation.
ReadsRecipe(r) ==
    /\ r.op \in {"retrieve", "create", "update", "partial_update"}
    /\ r.status \in {200, 201}

\* C15: in a recipe's read representation is_favorited (is_in_shopping_cart)
\* is present and is true exactly when the requester is authenticated and
\* the Favorite (ShoppingCart) row (requester, recipe) exists: rows of
\* other users do not count, and for an anonymous requester or without a
\* request both are false.
FlagsFollowRequester ==
    /\ ReadsRecipe(response) =>
          /\ {"is_favorited", "is_in_shopping_cart"} \subseteq response.repr.keys
          /\ response.repr.is_favorited =
                ( /\ response.user \in Users
                  /\ [user |-> response.user, recipe |-> response.pk]
                        \in FavoriteRecipe )
          /\ response.repr.is_in_shopping_cart =
                ( /\ response.user \in Users
                  /\ [user |-> response.user, recipe |-> response.pk]
                        \in ShoppingCart )
    /\ \A pk \in RecipePks, request \in {AnonymousUser, NoRequest} :
          /\ ~get_is_favorited(request, pk, FavoriteRecipe)
          /\ ~get_is_in_shopping_cart(request, pk, ShoppingCart)

\* A user read a recipe that is in their cart and is only the other user's
\* favorite.
FlagsFollowRequesterWitness ==
    /\ response.op = "retrieve"
    /\ response.status = 200
    /\ response.user \in Users
    /\ [user |-> 3 - response.user, recipe |-> response.pk] \in FavoriteRecipe
    /\ ~response.repr.is_favorited
    /\ response.repr.is_in_shopping_cart

TypedErrors ==
    {"ValidationError", "NotFound", "PermissionDenied", "AlreadyExists",
     "NotInRelation", "SelfSubscribe", "EmptyCart"}

\* C16: every request that does not succeed is answered with one of the
\* typed reasons (ValidationError, NotFound, Conflict, Forbidden,
\* EmptyCollection), an Update whose payload lacks a list included.
EveryFailureTyped ==
    (response.op # "none" /\ response.status \notin {200, 201, 204}) =>
        /\ response.error \in TypedErrors
        /\ response.status \in {400, 403, 404}

ProfileKeys == {"id", "username", "first_name", "last_name", "email"}

\* C17: a successful Add returns a minimal representation of its target:
\* for a favorite or a cart entry the recipe's id, name, image and cooking
\* time; for a subscription the author's profile, the previews of the
\* author's recipes and their count.
AddReturnsTarget ==
    (response.op \in Kinds /\ response.status = 201) =>
        IF response.op = "subscribe"
        THEN /\ ProfileKeys \cup {"recipes", "recipes_count"}
                   \subseteq response.repr.keys
             /\ {x.id : x \in response.repr.recipes}
                   = {y.id : y \in {z \in Recipe : z.author = response.pk}}
             /\ \A x \in response.repr.recipes :
                   x.keys = {"id", "name", "image", "cooking_time"}
             /\ response.repr.recipes_count =
                   Cardinality({z \in Recipe : z.author = response.pk})
        ELSE {"id", "name", "image", "cooking_time"} \subseteq response.repr.keys

\* C19: the author nested in a recipe's read representation carries
\* is_subscribed, true exactly when the requester is authenticated and the
\* Subscription row (requester, author) exists.
AuthorCarriesIsSubscribed ==
    ReadsRecipe(response) =>
        /\ "is_subscribed" \in response.repr.author_keys
        /\ response.repr.is_subscribed =
              ( /\ response.user \in Users
                /\ [user |-> response.user, author |-> response.body.author]
                      \in Subscribe )

(***************************************************************************)
(* Properties of concurrent updates.                                       *)
(***************************************************************************)
\* The tags and lines a payload asks for, and whether a read shows them.
Shows(read, data) ==
    /\ read.tags = Range(data.tags)
    /\ read.ingredients = Range(data.ingredients)

SeedRead ==
    RecipeReadSerializer(ConcurrentSeed.R, ConcurrentSeed.RT,
                         ConcurrentSeed.RI, ConcurrentPk)

\* A read that shows the aggregate as stored at first or as one complete
\* payload left it: never tags of one and lines of another, never without
\* lines.
Unmixed(read) ==
    \/ /\ read.tags = SeedRead.tags
       /\ read.ingredients = SeedRead.ingredients
    \/ \E data \in ConcurrentPayloads :
          /\ {"tags", "ingredients"} \subseteq data.fields
          /\ Shows(read, data)

ReadDuringUpdate ==
    /\ response.op = "retrieve"
    /\ \E w \in Workers :
          /\ inflight[w].pc = "cleared"
          /\ \A x \in RecipeIngredient : x.recipe # ConcurrentPk

(***************************************************************************)
(* Properties of isolation between users and between relations.            *)
(***************************************************************************)
\* The rows of relation `kind` other than the pair (u, t).
OtherRows(kind, u, t) == RelTable(kind) \ {RelRow(kind, u, t)}

\* The request answered by this step is the Add or the Remove of (u, t).
ToggleStep(kind, u, t) == AddStep(kind, u, t) \/ RemoveStep(kind, u, t)

\* The step left alone every row but the pair (u, t) of `kind`: the other
\* pairs of that relation, the other two relations, and the recipes with
\* their tags and lines.
TouchesOnly(kind, u, t) ==
    /\ OtherRows(kind, u, t)' = OtherRows(kind, u, t)
    /\ \A other \in Kinds \ {kind} : RelTable(other)' = RelTable(other)
    /\ UNCHANGED <<tables, next_pk>>

\* u's own cart entries, and the ingredient lines of the recipes in them.
OwnCart(SC, u) == {c \in SC : c.user = u}

OwnLines(RI, SC, u) ==
    {x \in RI : [user |-> u, recipe |-> x.recipe] \in SC}

\* The cart tables that differ from SC only in other users' entries, and
\* the line tables that differ from RI only in lines of recipes outside
\* u's cart.
CartsAgreeing(SC, u) ==
    {OwnCart(SC, u) \cup others :
        others \in SUBSET [user : Users \ {u}, recipe : {x.id : x \in Recipe}]}

LinesAgreeing(RI, SC, u) ==
    {OwnLines(RI, SC, u) \cup others :
        others \in SUBSET [recipe : {x.id : x \in Recipe}
                                       \ {c.recipe : c \in OwnCart(SC, u)},
                           ingredient : {x.id : x \in Ingredient},
                           amount : {MIN_INGREDIENT_AMOUNT}]}

\* Every answer the download can give u over the tables RI and SC.
Lists(RI, SC, u) ==
    {download_shopping_cart(SC, u, today, ingredients) :
        today \in Dates,
        ingredients \in Orderings(shopping_items(RI, SC, u))}

\* The answer u was given is an answer of every store that agrees on u's
\* cart entries and on the lines of the recipes in them, and such a store
\* can give no other answer.  The favorites are no input of the download.
OwnCartDeterminesList ==
    response.op = "download_shopping_cart" =>
        LET u == response.user
            served == DownloadOutcome(response.status, response.error,
                                      response.items, response.document)
        IN  \A SC \in CartsAgreeing(ShoppingCart, u),
               RI \in LinesAgreeing(RecipeIngredient, ShoppingCart, u) :
                /\ served \in Lists(RI, SC, u)
                /\ Lists(RI, SC, u)
                      = Lists(RecipeIngredient, ShoppingCart, u)

\* C21: relations are isolated per user and per kind.  An Add or Remove of
\* a Favorite, ShoppingCart entry or Subscription for (u, t) changes no row
\* of the other two relations, no row of the same relation for another
\* user or another target, and no recipe, tag or ingredient line.  The
\* shopping list exported for u therefore depends only on u's own cart
\* entries and the lines of those recipes: stores that differ only in
\* other users' carts or favorites, or in lines of recipes outside u's
\* cart, give u the same list.
RelationsIsolated ==
    [][/\ \A kind \in Kinds, u \in Users, t \in Targets :
             ToggleStep(kind, u, t) => TouchesOnly(kind, u, t)
       /\ OwnCartDeterminesList']_vars

\* A user downloaded their list while another user's cart held a recipe
\* theirs does not, and other users' favorites and subscriptions existed.
RelationsIsolatedWitness ==
    /\ response.op = "download_shopping_cart"
    /\ response.status = 200
    /\ \E c \in ShoppingCart :
          /\ c.user # response.user
          /\ c.recipe \notin InCart(response.user)
    /\ \E f \in FavoriteRecipe : f.user # response.user
    /\ Subscribe # {}

(***************************************************************************)
(* Properties of the ownership of a recipe.                                *)
(***************************************************************************)
\* The author stored for recipe pk in table R.
AuthorOf(R, pk) == RecipeRow(R, pk).author

\* The request data named an author other than the requester.
NamesAnotherAuthor(r) ==
    /\ "author" \in r.data.fields
    /\ r.data.author # r.user

\* C22: a recipe's author is fixed at creation and never changes.  A recipe
\* that appears was created by the request just served and its author is
\* the requesting user, whatever author the request data names; a recipe
\* that stays keeps its author across every step, and a successful Update,
\* whatever its payload, returns the recipe with the author it had.
AuthorFixed ==
    [][/\ \A y \in Recipe' :
             IF Exists(Recipe, y.id)
             THEN y.author = AuthorOf(Recipe, y.id)
             ELSE /\ response'.op = "create"
                  /\ response'.status = 201
                  /\ response'.pk = y.id
                  /\ y.author = response'.user
       /\ (response = NoResponse /\ response'.op = "create"
             /\ response'.status = 201) =>
             /\ Exists(Recipe', response'.pk)
             /\ AuthorOf(Recipe', response'.pk) = response'.user
             /\ response'.body.author = response'.user
       /\ (response = NoResponse /\ response'.op \in UpdateOps
             /\ response'.status = 200) =>
             /\ response'.body.author = response'.before.author
             /\ AuthorOf(Recipe', response'.pk) = response'.before.author]_vars

\* An Update whose data named another user as author succeeded, on a
\* recipe still owned by the requester.
AuthorFixedWitness ==
    /\ response.op \in UpdateOps
    /\ response.status = 200
    /\ NamesAnotherAuthor(response)
    /\ response.body.author = response.user
    /\ AuthorOf(Recipe, response.pk) = response.user

=============================================================================
